---- MODULE Spec2Model ----
(***************************************************************************)
(* Model of the Insight-Engine query core (src/logic.py, src/prompt_logic.py,*)
(* src/main.py): the dialect normalizer fix_postgres_sql, the output        *)
(* extractor clean_sql_output, the validator is_query_valid, the prompt     *)
(* builder and the generation-validation loop generate_and_validate_sql.    *)
(*                                                                         *)
(* Text.  A Python string is modelled as a sequence of lexemes (each a TLA+ *)
(* string): words, punctuation, literals, and " " for a run of whitespace   *)
(* where whitespace matters (at the ends of a string, where strip() acts).  *)
(* Whitespace between two lexemes inside SQL is implicit.  The empty Python *)
(* string is << >>; Python's None is the one-lexeme sequence NoneVal, whose *)
(* lexeme occurs in no text.                                                *)
(***************************************************************************)
EXTENDS Naturals, Sequences, FiniteSets, TLC

\* ------------------------------------------------------------------ text

NoneVal == <<"<None>">>

WS == " "

RECURSIVE Concat(_)
Concat(ss) == IF ss = <<>> THEN <<>> ELSE Head(ss) \o Concat(Tail(ss))

RECURSIVE LStrip(_)
LStrip(s) == IF s # <<>> /\ Head(s) = WS THEN LStrip(Tail(s)) ELSE s

RECURSIVE RStrip(_)
RStrip(s) ==
    IF s # <<>> /\ s[Len(s)] = WS THEN RStrip(SubSeq(s, 1, Len(s) - 1)) ELSE s

\* str.strip()
Strip(s) == RStrip(LStrip(s))

\* str.upper() on one lexeme: the lexemes of the model that have lower-case
\* letters, each with its upper-case form; every other lexeme is unchanged.
UpperTok(t) ==
    CASE t = "select" -> "SELECT"
      [] t = "Select" -> "SELECT"
      [] t = "with"   -> "WITH"
      [] t = "from"   -> "FROM"
      [] t = "drop"   -> "DROP"
      [] t = "selected" -> "SELECTED"
      [] OTHER -> t

\* str.upper()
RECURSIVE Upper(_)
Upper(s) == IF s = <<>> THEN <<>> ELSE <<UpperTok(Head(s))>> \o Upper(Tail(s))

\* s.startswith(kw) for a keyword kw: the first lexeme begins with the
\* letters of kw (startswith looks at characters, not at word boundaries).
HasPrefix(t, kw) ==
    \/ t = kw
    \/ kw = "SELECT" /\ t = "SELECTED"

StartsWith(s, kw) == s # <<>> /\ HasPrefix(Head(s), kw)

\* `sub` occurs in `s` as a contiguous run (Python's `sub in s`).
Contains(s, sub) ==
    \E i \in 1..(Len(s) + 1) :
        /\ i + Len(sub) - 1 <= Len(s)
        /\ SubSeq(s, i, i + Len(sub) - 1) = sub

\* ------------------------------------------- sqlparse: the token tree
\* A node of sqlparse's tree.  A leaf (sqlparse.sql.Token) has k = "Token",
\* its lexer type in ty and its text in value.  A group (TokenList) has its
\* class in k, its children in tokens, and in value the text it had when it
\* was built: Token.__init__ stores str(self) once, and later changes to the
\* children do not update it; str(group) joins the leaves anew.

Leaf(ty, t) == [k |-> "Token", ty |-> ty, value |-> <<t>>, tokens |-> <<>>]

RECURSIVE Str(_)
RECURSIVE StrAll(_)
Str(node) == IF node.k = "Token" THEN node.value ELSE StrAll(node.tokens)

StrAll(nodes) ==
    IF nodes = <<>> THEN <<>> ELSE Str(Head(nodes)) \o StrAll(Tail(nodes))

Group(cls, nodes) ==
    [k |-> cls, ty |-> "None", value |-> StrAll(nodes), tokens |-> nodes]

Punct == {"(", ")", ",", ";"}
Keywords ==
    {"SELECT", "select", "Select", "WITH", "with", "FROM", "from", "AS",
     "DROP", "drop", "TABLE", "CURRENT_TIMESTAMP", "DATE", "NUMERIC"}
Numbers == {"1", "2"}
Strings == {"'%B'", "'Month'"}

\* The lexer's type for lexeme i of toks.  A word directly followed by "("
\* is a Name, also when it is a keyword; a backtick-quoted identifier is a
\* plain Name (the lexer has no Name.Quoted type).
LexType(toks, i) ==
    LET t == toks[i] IN
    CASE t = WS -> "Whitespace"
      [] t \in Punct -> "Punctuation"
      [] t \in Numbers -> "Number"
      [] t \in Strings -> "String"
      [] t \in {"CASE", "IN", "VALUES", "USING", "FROM", "AS"} -> "Keyword"
      [] t \notin ({WS} \cup Punct \cup Numbers \cup Strings
                      \cup {"CASE", "IN", "VALUES", "USING", "FROM", "AS"})
            /\ i < Len(toks) /\ toks[i + 1] = "(" -> "Name"
      [] OTHER -> IF t \in Keywords THEN "Keyword" ELSE "Name"

\* The index of the ")" that closes a "(" when scanning from j at nesting
\* depth `depth`; 0 when there is none.
RECURSIVE ScanClose(_, _, _)
ScanClose(toks, j, depth) ==
    IF j > Len(toks) THEN 0
    ELSE IF toks[j] = ")"
         THEN IF depth = 0 THEN j ELSE ScanClose(toks, j + 1, depth - 1)
    ELSE IF toks[j] = "(" THEN ScanClose(toks, j + 1, depth + 1)
    ELSE ScanClose(toks, j + 1, depth)

IsComma(node) == node.k = "Token" /\ node.value = <<",">>

\* grouping.group_identifier_list: the comma-separated items of one level
\* become one IdentifierList.
GroupIdList(nodes) ==
    LET commas == {i \in 1..Len(nodes) : IsComma(nodes[i])} IN
    IF commas = {} THEN nodes
    ELSE LET lo == CHOOSE i \in commas : \A j \in commas : i <= j
             hi == CHOOSE i \in commas : \A j \in commas : i >= j
         IN IF lo = 1 \/ hi = Len(nodes) THEN nodes
            ELSE SubSeq(nodes, 1, lo - 2)
                 \o <<Group("IdentifierList", SubSeq(nodes, lo - 1, hi + 1))>>
                 \o SubSeq(nodes, hi + 2, Len(nodes))

\* grouping.group: parentheses, then functions (a Name directly followed by
\* a Parenthesis), then identifiers (every remaining Name), then identifier
\* lists, at every level.
RECURSIVE GroupTokens(_, _)
RECURSIVE MkParen(_)
MkParen(inner) ==
    Group("Parenthesis",
          <<Leaf("Punctuation", "(")>> \o GroupIdList(GroupTokens(inner, 1))
              \o <<Leaf("Punctuation", ")")>>)

GroupTokens(toks, i) ==
    IF i > Len(toks) THEN <<>>
    ELSE
      LET t  == toks[i]
          ty == LexType(toks, i)
          c1 == IF t = "(" THEN ScanClose(toks, i + 1, 0) ELSE 0
          c2 == IF ty = "Name" /\ i < Len(toks) /\ toks[i + 1] = "("
                THEN ScanClose(toks, i + 2, 0) ELSE 0
      IN
      IF c1 # 0 THEN
          <<MkParen(SubSeq(toks, i + 1, c1 - 1))>> \o GroupTokens(toks, c1 + 1)
      ELSE IF c2 # 0 THEN
          <<Group("Function",
                  <<Group("Identifier", <<Leaf("Name", t)>>),
                    MkParen(SubSeq(toks, i + 2, c2 - 1))>>)>>
              \o GroupTokens(toks, c2 + 1)
      ELSE IF ty = "Name" THEN
          <<Group("Identifier", <<Leaf("Name", t)>>)>> \o GroupTokens(toks, i + 1)
      ELSE <<Leaf(ty, t)>> \o GroupTokens(toks, i + 1)

\* The text of the first statement of sql: sqlparse.parse splits at ";".
FirstStatement(sql) ==
    LET semis == {i \in 1..Len(sql) : sql[i] = ";"} IN
    IF semis = {} THEN sql
    ELSE SubSeq(sql, 1, CHOOSE i \in semis : \A j \in semis : i <= j)

\* sqlparse.parse(sql): the statements of sql, here the first one only (the
\* code reads parsed[0] alone); the empty tuple for the empty string.
parse(sql) ==
    IF sql = <<>> THEN <<>>
    ELSE <<Group("Statement", GroupIdList(GroupTokens(FirstStatement(sql), 1)))>>

\* ------------------------------------------------- fix_postgres_sql

\* reparse_snippet(snippet): sqlparse.parse(snippet)[0].tokens
reparse_snippet(snippet) == parse(snippet)[1].tokens

\* IdentifierList.get_identifiers(): the items that are neither whitespace
\* nor a comma.
get_identifiers(idlist) ==
    SelectSeq(idlist.tokens,
              LAMBDA n : ~(n.k = "Token" /\ n.ty = "Whitespace") /\ ~IsComma(n))

\* Function.get_parameters(): the identifiers of the IdentifierList inside
\* the function's parenthesis when there is one, else the parenthesis' items
\* that are a Function, an Identifier or a literal.
get_parameters(func) ==
    LET inner == func.tokens[Len(func.tokens)].tokens
        lists == {i \in 1..Len(inner) : inner[i].k = "IdentifierList"}
    IN IF lists # {}
       THEN get_identifiers(inner[CHOOSE i \in lists : \A j \in lists : i <= j])
       ELSE SelectSeq(inner,
                LAMBDA n : \/ n.k \in {"Function", "Identifier"}
                           \/ n.k = "Token" /\ n.ty \in {"Number", "String"})

\* The loop over token.tokens that finds the function's name: the
\* `normalized` text of the first child that is a keyword or an Identifier;
\* << >> when there is none.  normalized is set when the node is built: the
\* upper-cased text of a keyword, the text as written otherwise.
FuncName(func) ==
    LET named == {i \in 1..Len(func.tokens) :
                     \/ func.tokens[i].k = "Identifier"
                     \/ func.tokens[i].k = "Token" /\ func.tokens[i].ty = "Keyword"}
    IN IF named = {} THEN <<>>
       ELSE LET n == func.tokens[CHOOSE i \in named : \A j \in named : i <= j]
            IN IF n.k = "Token" THEN Upper(n.value) ELSE n.value

\* Fix 1 on a leaf: a Name.Quoted token in backticks gets double quotes.
\* The lexeme BQ_c is the identifier c in backticks, DQ_c the same in double
\* quotes.
IsBacktick(t) == t \in {"BQ_c", "BQ_d"}
Requote(t) == IF t = "BQ_c" THEN "DQ_c" ELSE IF t = "BQ_d" THEN "DQ_d" ELSE t

FixQuoted(token) ==
    IF token.k = "Token" /\ token.ty = "Name.Quoted" /\ IsBacktick(token.value[1])
    THEN [token EXCEPT !.value = <<Requote(token.value[1])>>]
    ELSE token

\* Fixes 2 to 6 on a Function whose children were already processed.  The
\* parameters are read through their `value`, the text each had when parsed.
FixFunction(token) ==
    LET func_name == FuncName(token)
        params    == get_parameters(token)
    IN
    IF func_name = <<>> THEN token
    ELSE IF func_name = <<"NOW">> /\ params = <<>> THEN
        [token EXCEPT !.tokens = reparse_snippet(<<"CURRENT_TIMESTAMP">>)]
    ELSE IF func_name = <<"IFNULL">> /\ Len(params) = 2 THEN
        [token EXCEPT !.tokens = reparse_snippet(
            <<"COALESCE", "(">> \o params[1].value \o <<",">>
                \o params[2].value \o <<")">>)]
    ELSE IF func_name = <<"DATE">> /\ Len(params) = 1 THEN
        [token EXCEPT !.tokens = reparse_snippet(
            <<"CAST", "(">> \o params[1].value \o <<"AS", "DATE", ")">>)]
    ELSE IF func_name = <<"ROUND">> /\ Len(params) = 2 THEN
        [token EXCEPT !.tokens = reparse_snippet(
            <<"ROUND", "(", "CAST", "(">> \o params[1].value
                \o <<"AS", "NUMERIC", ")", ",">> \o params[2].value \o <<")">>)]
    ELSE IF func_name = <<"FORMAT_DATE">> /\ Len(params) = 2 THEN
        [token EXCEPT !.tokens = reparse_snippet(
            <<"TO_CHAR", "(">> \o params[2].value \o <<",", "'Month'", ")">>)]
    ELSE token

\* process_tokens: for each token, first its children, then Fix 1, then the
\* function fixes.  The children are replaced in place, so the group keeps
\* the `value` it was built with.
RECURSIVE process_tokens(_)
process_token(token) ==
    LET t1 == IF token.k # "Token"
              THEN [token EXCEPT !.tokens = process_tokens(token.tokens)]
              ELSE token
        t2 == FixQuoted(t1)
    IN IF t2.k = "Function" THEN FixFunction(t2) ELSE t2

process_tokens(tokens) ==
    IF tokens = <<>> THEN <<>>
    ELSE <<process_token(Head(tokens))>> \o process_tokens(Tail(tokens))

fix_postgres_sql(sql) ==
    LET parsed == parse(sql) IN
    IF parsed = <<>> THEN Strip(sql)
    ELSE Strip(Str([parsed[1] EXCEPT !.tokens = process_tokens(parsed[1].tokens)]))

\* ------------------------------------------------- clean_sql_output

\* An exception raised by a callee and not caught: a one-lexeme sequence that
\* no text equals.  The caller that receives it propagates it.
TypeError == <<"<TypeError>">>
IsExc(v) == v = TypeError

\* re.search(r'\b(SELECT|WITH)\b', raw_output, re.IGNORECASE): the index of
\* the first whole word SELECT or WITH in any case; 0 when there is none.
SearchStart(raw_output) ==
    LET hits == {i \in 1..Len(raw_output) :
                    UpperTok(raw_output[i]) \in {"SELECT", "WITH"}}
    IN IF hits = {} THEN 0 ELSE CHOOSE i \in hits : \A j \in hits : i <= j

\* str.rfind(';'): the index of the last ";", 0 when there is none.
RFindSemi(s) ==
    LET semis == {i \in 1..Len(s) : s[i] = ";"}
    IN IF semis = {} THEN 0 ELSE CHOOSE i \in semis : \A j \in semis : i >= j

\* clean_sql_output without its `if not raw_output` guard: re.search raises
\* TypeError on None.
clean_sql_output_noguard(raw_output) ==
    IF raw_output = NoneVal THEN TypeError
    ELSE LET start == SearchStart(raw_output) IN
         IF start = 0 THEN <<>>
         ELSE LET query_candidate == SubSeq(raw_output, start, Len(raw_output))
                  last_semicolon_pos == RFindSemi(query_candidate)
              IN IF last_semicolon_pos # 0
                 THEN Strip(SubSeq(query_candidate, 1, last_semicolon_pos))
                 ELSE Strip(query_candidate)

clean_sql_output(raw_output) ==
    IF raw_output = NoneVal \/ raw_output = <<>> THEN <<>>
    ELSE LET start == SearchStart(raw_output) IN
         IF start = 0 THEN <<>>
         ELSE LET query_candidate == SubSeq(raw_output, start, Len(raw_output))
                  last_semicolon_pos == RFindSemi(query_candidate)
              IN IF last_semicolon_pos # 0
                 THEN Strip(SubSeq(query_candidate, 1, last_semicolon_pos))
                 ELSE Strip(query_candidate)

\* --------------------------------------------------- is_query_valid

RejectMsg == <<"Validation failed: Only SELECT or CTE statements can be checked.">>
OkMsg == <<"OK">>

\* What the database answers to EXPLAIN <sql>: it accepts the statement,
\* rejects it (ProgrammingError, whose e.orig is the database's own text), or
\* the call fails otherwise (connection, timeout).
DbOutcomes ==
    {[kind |-> "ok", text |-> <<>>],
     [kind |-> "ProgrammingError", text |-> <<"syntax error at or near a">>],
     [kind |-> "Exception", text |-> <<"connection refused">>]}

\* The gate of is_query_valid: sql_query.strip().upper() starts with SELECT
\* or WITH.
PassesGate(sql_query) ==
    LET clean_query == Upper(Strip(sql_query)) IN
    StartsWith(clean_query, "SELECT") \/ StartsWith(clean_query, "WITH")

\* The three answers of is_query_valid once EXPLAIN was sent.
Explained(sql_query, db) ==
    CASE db.kind = "ok" ->
            [is_valid |-> TRUE, message |-> OkMsg,
             explained |-> <<<<"EXPLAIN">> \o sql_query>>]
      [] db.kind = "ProgrammingError" ->
            [is_valid |-> FALSE, message |-> db.text,
             explained |-> <<<<"EXPLAIN">> \o sql_query>>]
      [] OTHER ->
            [is_valid |-> FALSE,
             message |-> <<"An unexpected error occurred:">> \o db.text,
             explained |-> <<<<"EXPLAIN">> \o sql_query>>]

\* is_query_valid without the gate: every candidate is sent to EXPLAIN.
is_query_valid_nogate(sql_query, db) == Explained(sql_query, db)

\* is_query_valid with the gate after the dry-run: the candidate is sent to
\* EXPLAIN, then rejected when it is not read-only.
is_query_valid_explain_first(sql_query, db) ==
    IF ~PassesGate(sql_query)
    THEN [is_valid |-> FALSE, message |-> RejectMsg,
          explained |-> <<<<"EXPLAIN">> \o sql_query>>]
    ELSE Explained(sql_query, db)

\* is_query_valid(sql_query, engine) when the database would answer db:
\* [is_valid, message, explained], explained the list of statements the call
\* sent to the database.
is_query_valid(sql_query, db) ==
    IF ~PassesGate(sql_query)
    THEN [is_valid |-> FALSE, message |-> RejectMsg, explained |-> <<>>]
    ELSE Explained(sql_query, db)

\* ------------------------------------------------------ prompt_logic

\* The example file: (question, query) pairs.
ExamplePool ==
    <<[question |-> <<"How many orders?">>, query |-> <<"SELECT COUNT(*) FROM o;">>],
      [question |-> <<"Total revenue?">>, query |-> <<"SELECT SUM(r) FROM o;">>]>>

\* num_examples, the default of build_prompt_from_files
NumExamples == 3

\* The lists of examples build_prompt_from_files may select: every ordered
\* sample of num_examples distinct examples when the pool has more than
\* num_examples, the whole pool otherwise.
SelectExamples(all_examples, num_examples) ==
    IF Len(all_examples) > num_examples
    THEN {[i \in 1..num_examples |-> all_examples[f[i]]] :
             f \in {g \in [1..num_examples -> 1..Len(all_examples)] :
                       \A a, b \in 1..num_examples : a # b => g[a] # g[b]}}
    ELSE {all_examples}

RECURSIVE FormatFrom(_, _)
FormatFrom(selected, i) ==
    IF i > Len(selected) THEN <<>>
    ELSE <<"### Example", ToString(i)>> \o selected[i].question
             \o selected[i].query \o FormatFrom(selected, i + 1)

FormatExamples(selected) == FormatFrom(selected, 1)

SystemBlock == <<"You are an expert PostgreSQL data analyst ...">>

build_prompt_from_files(schema_string, selected_examples, user_question) ==
    SystemBlock \o <<"### Database Schema:">> \o schema_string \o <<"---">>
        \o FormatExamples(selected_examples)
        \o <<"---", "### New Task:", "**User Question:**">> \o user_question
        \o <<"**SQL Query:**">>

\* What ollama.generate does: it answers with a completion, or the call
\* fails.
ServiceDown == <<"<ConnectionError>">>

\* query_olama(prompt) when the service's outcome is `outcome`: the stripped
\* completion, None when the call raised.
query_olama(outcome) ==
    IF outcome = ServiceDown THEN NoneVal ELSE Strip(outcome)

\* ------------------------------------ generate_and_validate_sql: state

VARIABLES
    pc,                      \* where the invocation is
    user_question, previous_sql, user_feedback, max_syntax_retries,
    base_prompt_instruction, \* the effective instruction
    attempt,                 \* the loop index; max_syntax_retries + 1 once the range is used up
    prompt,                  \* the prompt of the current attempt
    generated_sql,           \* the current candidate
    error_message,           \* the Validator message of the last failed attempt
    result,                  \* the returned string, or the message of the raised error
    promptLog,               \* the prompts sent to the generation service so far
    serviceLog,              \* what the generation service did on each call
    validLog,                \* the Validator calls so far: [sql, is_valid, message]
    dbLog,                   \* the statements sent to the database so far
    fx_stage, fx_sql, fx_once, fx_twice,   \* fix_postgres_sql applied on its own
    va_stage, va_sql, va_db, va_result,    \* is_query_valid called on its own
    sc_pc,                   \* GET /schema: where each request is
    cache,                   \* the TTLCache of get_db_schema: its live slots
    now,                     \* the cache's timer, in seconds
    schema_summary,          \* GET /schema: what get_db_schema gave each request
    response                 \* GET /schema: what each request was answered

loopVars ==
    <<pc, user_question, previous_sql, user_feedback, max_syntax_retries,
      base_prompt_instruction, attempt, prompt, generated_sql, error_message,
      result, promptLog, serviceLog, validLog, dbLog>>
fxVars == <<fx_stage, fx_sql, fx_once, fx_twice>>
vaVars == <<va_stage, va_sql, va_db, va_result>>
scVars == <<sc_pc, cache, now, schema_summary, response>>
vars == <<loopVars, fxVars, vaVars, scVars>>

\* ----------------------------------------------------------- bounds

\* The largest max_syntax_retries a caller passes.
MaxRetries == 2

\* The nesting depth of the function calls in the normalizer's inputs.
MaxDepth == 2

\* ------------------------------------------------------------ inputs

Questions == {<<"total", "sales", "per", "month">>}
PreviousSqls == {NoneVal, <<>>, <<"SELECT", "SUM", "(", "s", ")", "FROM", "o">>}
Feedbacks == {NoneVal, <<>>, <<"group", "it", "by", "month">>}

EnhancedSchema == <<"Table: t (a, b)">>

\* What the generation service may answer: the call fails, or a completion:
\* prose around two statements, a refusal without any query, a lower-case
\* query in MySQL idiom without terminator, a CTE.
ServiceOutcomes ==
    {ServiceDown,
     <<WS, "Sure!", "SELECT", "a", "FROM", "t", ";", "DROP", "TABLE", "t", ";",
       "done", WS>>,
     <<"Error:", "The question cannot be answered">>,
     <<"select", "ROUND", "(", "IFNULL", "(", "a", ",", "b", ")", ",", "2", ")",
       "from", "t">>,
     <<"WITH", "x", "AS", "(", "SELECT", "1", ")", "SELECT", "a", "FROM", "x", ";">>}

\* Python truthiness of an optional string.
Truthy(s) == s # NoneVal /\ s # <<>>

RefineInstruction(question, prev, feedback) ==
    <<"The user was not satisfied with the result from the previous query. ...",
      "**User's Original Question:**">> \o question
        \o <<"**Previous Incorrect SQL Query:**">> \o prev
        \o <<"**User's Feedback on Why It Was Wrong:**">> \o feedback

\* The syntax-fix block without the Validator message.
FixInstructions_without_error(failed_sql, message) ==
    <<"The previously generated SQL query failed with a syntax error. ...",
      "**Failed SQL Query:**">> \o failed_sql
        \o <<"**Database Error Message:**">>

FixInstructions(failed_sql, message) ==
    <<"The previously generated SQL query failed with a syntax error. ...",
      "**Failed SQL Query:**">> \o failed_sql
        \o <<"**Database Error Message:**">> \o message

ExhaustedMessage(retries, message) ==
    <<"Failed to generate a syntactically valid SQL query after",
      ToString(retries + 1), "attempts.", "Last database error:">> \o message

\* ----------------------------------------------------------- actions

LoopInit ==
    /\ pc = "idle"
    /\ user_question = <<>> /\ previous_sql = NoneVal /\ user_feedback = NoneVal
    /\ max_syntax_retries = 0
    /\ base_prompt_instruction = <<>>
    /\ attempt = 0
    /\ prompt = <<>>
    /\ generated_sql = <<>>
    /\ error_message = <<>>
    /\ result = <<>>
    /\ promptLog = <<>>
    /\ serviceLog = <<>>
    /\ validLog = <<>>
    /\ dbLog = <<>>

FxIdle == fx_stage = "off" /\ fx_sql = <<>> /\ fx_once = <<>> /\ fx_twice = <<>>
VaIdle == va_stage = "off" /\ va_sql = <<>> /\ va_db = <<>> /\ va_result = <<>>

ScIdle ==
    /\ sc_pc = <<>> /\ cache = <<>> /\ now = 0
    /\ schema_summary = <<>> /\ response = <<>>

Init == LoopInit /\ FxIdle /\ VaIdle /\ ScIdle

\* The effective instruction: the refinement instruction when previous_sql
\* and user_feedback are both given and non-empty, the question otherwise.
EffectiveInstruction_or(q, p, f) ==
    IF Truthy(p) \/ Truthy(f) THEN RefineInstruction(q, p, f) ELSE q

EffectiveInstruction(q, p, f) ==
    IF Truthy(p) /\ Truthy(f) THEN RefineInstruction(q, p, f) ELSE q

\* The loop index after a failed attempt.
NextAttempt_stuck(a) == a

NextAttempt(a) == a + 1

\* What `return generated_sql` hands back.
Returned_refixed(sql) == fix_postgres_sql(sql)

Returned(sql) == sql

\* error_message after a failed attempt whose Validator message is `message`.
KeptMessage_first(old, message) == IF old = <<>> THEN message ELSE old

KeptMessage(old, message) == message

\* The call and the lines before the loop: the effective instruction.
Call ==
    /\ pc = "idle"
    /\ \E q \in Questions, p \in PreviousSqls, f \in Feedbacks, m \in 0..MaxRetries :
          /\ user_question' = q
          /\ previous_sql' = p
          /\ user_feedback' = f
          /\ max_syntax_retries' = m
          /\ base_prompt_instruction' = EffectiveInstruction(q, p, f)
    /\ attempt' = 0
    /\ generated_sql' = <<>>
    /\ error_message' = <<>>
    /\ pc' = "loop"
    /\ UNCHANGED <<prompt, result, promptLog, serviceLog, validLog, dbLog, fxVars,
                   vaVars, scVars>>

\* The head of an iteration: the first-pass prompt on attempt 0, the
\* syntax-fix prompt afterwards.
BuildPrompt ==
    /\ pc = "loop"
    /\ attempt <= max_syntax_retries
    /\ \E selected \in SelectExamples(ExamplePool, NumExamples) :
          prompt' = build_prompt_from_files(
                        EnhancedSchema, selected,
                        IF attempt = 0 THEN base_prompt_instruction
                        ELSE base_prompt_instruction
                                 \o FixInstructions(generated_sql, error_message))
    /\ pc' = "generate"
    /\ UNCHANGED <<user_question, previous_sql, user_feedback, max_syntax_retries,
                   base_prompt_instruction, attempt, generated_sql, error_message,
                   result, promptLog, serviceLog, validLog, dbLog, fxVars, vaVars, scVars>>

\* query_olama, clean_sql_output and fix_postgres_sql: the candidate.
Generate ==
    /\ pc = "generate"
    /\ \E outcome \in ServiceOutcomes :
          LET generated_sql_raw == query_olama(outcome)
              cleaned_sql == IF IsExc(generated_sql_raw) THEN generated_sql_raw
                             ELSE clean_sql_output(generated_sql_raw)
          IN /\ serviceLog' = Append(serviceLog, outcome)
             /\ IF IsExc(cleaned_sql)
                THEN /\ pc' = "propagated"
                     /\ result' = cleaned_sql
                     /\ UNCHANGED generated_sql
                ELSE /\ pc' = "validate"
                     /\ generated_sql' = fix_postgres_sql(cleaned_sql)
                     /\ UNCHANGED result
    /\ promptLog' = Append(promptLog, prompt)
    /\ UNCHANGED <<user_question, previous_sql, user_feedback, max_syntax_retries,
                   base_prompt_instruction, attempt, prompt, error_message,
                   validLog, dbLog, fxVars, vaVars, scVars>>

\* Validate with a not-read-only rejection raised at once instead of retried.
Validate_reject_final ==
    /\ pc = "validate"
    /\ \E db \in DbOutcomes :
          LET r == is_query_valid(generated_sql, db) IN
          /\ validLog' = Append(validLog,
                [sql |-> generated_sql, is_valid |-> r.is_valid, message |-> r.message])
          /\ dbLog' = dbLog \o r.explained
          /\ IF r.is_valid
             THEN /\ pc' = "returned"
                  /\ result' = Returned(generated_sql)
                  /\ UNCHANGED <<error_message, attempt>>
             ELSE IF r.message = RejectMsg
             THEN /\ pc' = "raised"
                  /\ result' = r.message
                  /\ UNCHANGED <<error_message, attempt>>
             ELSE /\ pc' = "loop"
                  /\ error_message' = KeptMessage(error_message, r.message)
                  /\ attempt' = NextAttempt(attempt)
                  /\ UNCHANGED result
    /\ UNCHANGED <<user_question, previous_sql, user_feedback, max_syntax_retries,
                   base_prompt_instruction, prompt, generated_sql, promptLog,
                   serviceLog, fxVars, vaVars, scVars>>

\* is_query_valid and the branch on its answer: return the candidate, or
\* keep the message and go on to the next iteration.
Validate ==
    /\ pc = "validate"
    /\ \E db \in DbOutcomes :
          LET r == is_query_valid(generated_sql, db) IN
          /\ validLog' = Append(validLog,
                [sql |-> generated_sql, is_valid |-> r.is_valid, message |-> r.message])
          /\ dbLog' = dbLog \o r.explained
          /\ IF r.is_valid
             THEN /\ pc' = "returned"
                  /\ result' = Returned(generated_sql)
                  /\ UNCHANGED <<error_message, attempt>>
             ELSE /\ pc' = "loop"
                  /\ error_message' = KeptMessage(error_message, r.message)
                  /\ attempt' = NextAttempt(attempt)
                  /\ UNCHANGED result
    /\ UNCHANGED <<user_question, previous_sql, user_feedback, max_syntax_retries,
                   base_prompt_instruction, prompt, generated_sql, promptLog,
                   serviceLog, fxVars, vaVars, scVars>>

\* The range is used up: the ValueError after the loop.
RaiseExhausted ==
    /\ pc = "loop"
    /\ attempt > max_syntax_retries
    /\ pc' = "raised"
    /\ result' = ExhaustedMessage(max_syntax_retries, error_message)
    /\ UNCHANGED <<user_question, previous_sql, user_feedback, max_syntax_retries,
                   base_prompt_instruction, attempt, prompt, generated_sql,
                   error_message, promptLog, serviceLog, validLog, dbLog, fxVars,
                   vaVars, scVars>>

Next == Call \/ BuildPrompt \/ Generate \/ Validate \/ RaiseExhausted

Spec == Init /\ [][Next]_vars

\* ------------------------------- fix_postgres_sql applied on its own

FixAtoms == {<<"a">>, <<"BQ_c">>}

Call1(name, x) == <<name, "(">> \o x \o <<")">>
Call2(name, x, y) == <<name, "(">> \o x \o <<",">> \o y \o <<")">>

\* The expressions with function calls nested at most d deep: the six
\* targeted patterns and a function the normalizer leaves alone.
RECURSIVE Exprs(_)
Exprs(d) ==
    IF d = 0 THEN FixAtoms
    ELSE LET E == Exprs(d - 1) IN
         E \cup {<<"NOW", "(", ")">>}
           \cup {Call2("IFNULL", x, y) : x \in E, y \in FixAtoms}
           \cup {Call1("DATE", x) : x \in E}
           \cup {Call2("ROUND", x, <<"2">>) : x \in E}
           \cup {Call2("FORMAT_DATE", <<"'%B'">>, x) : x \in E}
           \cup {Call1("SUM", x) : x \in E}

FixInputs == {<<"SELECT">> \o e \o <<"FROM", "t">> : e \in Exprs(MaxDepth)}

FxInit == LoopInit /\ VaIdle /\ ScIdle
          /\ fx_stage = "in" /\ fx_sql \in FixInputs
          /\ fx_once = <<>> /\ fx_twice = <<>>

FxOnce ==
    /\ fx_stage = "in"
    /\ fx_once' = fix_postgres_sql(fx_sql)
    /\ fx_stage' = "once"
    /\ UNCHANGED <<fx_sql, fx_twice, loopVars, vaVars, scVars>>

FxTwice ==
    /\ fx_stage = "once"
    /\ fx_twice' = fix_postgres_sql(fx_once)
    /\ fx_stage' = "twice"
    /\ UNCHANGED <<fx_sql, fx_once, loopVars, vaVars, scVars>>

FxNext == FxOnce \/ FxTwice

SpecFix == FxInit /\ [][FxNext]_vars

\* --------------------------------- is_query_valid called on its own

FirstWords ==
    {"SELECT", "select", "Select", "WITH", "with", "SELECTED", "DROP", "drop",
     "INSERT", "UPDATE", "DELETE", "EXPLAIN", "("}

Candidates ==
    {<<>>, <<WS>>}
      \cup {lead \o <<w>> \o rest :
               lead \in {<<>>, <<WS>>}, w \in FirstWords,
               rest \in {<<"1">>, <<"a", "FROM", "t", ";", "DROP", "TABLE", "t">>}}

VaInit == LoopInit /\ FxIdle /\ ScIdle
          /\ va_stage = "in" /\ va_sql \in Candidates
          /\ va_db = <<>> /\ va_result = <<>>

VaCall ==
    /\ va_stage = "in"
    /\ \E db \in DbOutcomes :
          LET r == is_query_valid(va_sql, db) IN
          /\ va_db' = <<db.kind>>
          /\ va_result' = <<r.is_valid, r.message>>
          /\ dbLog' = dbLog \o r.explained
    /\ va_stage' = "done"
    /\ UNCHANGED <<va_sql, fxVars, pc, user_question, previous_sql, user_feedback,
                   max_syntax_retries, base_prompt_instruction, attempt, prompt,
                   generated_sql, error_message, result, promptLog, serviceLog,
                   validLog, scVars>>

VaNext == VaCall

SpecValid == VaInit /\ [][VaNext]_vars

\* ------------------------------------- GET /schema and get_db_schema

MaxRequests == 2
MaxTicks == 2

Requests == 1..MaxRequests

\* @cached(cache=TTLCache(maxsize=1, ttl=600))
MaxSize == 1
Ttl == 600

\* What the inspector can report for the public schema: its tables with their
\* columns, or a failure of the database.
InspectFailed == <<"<OperationalError>">>
Catalogs ==
    {[kind |-> "error", tables |-> <<>>],
     [kind |-> "ok", tables |-> <<>>],
     [kind |-> "ok",
      tables |-> <<[name |-> "t", columns |-> <<[name |-> "a", type |-> "INTEGER"]>>]>>],
     [kind |-> "ok",
      tables |-> <<[name |-> "t", columns |-> <<[name |-> "a", type |-> "INTEGER"],
                                                [name |-> "b", type |-> "TEXT"]>>],
                   [name |-> "u", columns |-> <<>>]>>]}

\* The lines of one table's columns: "  - name (type)\n" each.
RECURSIVE ColumnLines(_)
ColumnLines(columns) ==
    IF columns = <<>> THEN <<>>
    ELSE <<"-", WS, Head(columns).name, WS, Head(columns).type, WS>>
            \o ColumnLines(Tail(columns))

\* "Table: name\n", the table's column lines and an empty line, per table.
RECURSIVE TableLines(_)
TableLines(tables) ==
    IF tables = <<>> THEN <<>>
    ELSE <<"Table:", WS, Head(tables).name, WS>>
            \o ColumnLines(Head(tables).columns)
            \o TableLines(Tail(tables))

\* The body of get_db_schema: the stripped summary, or the failure re-raised.
get_db_schema(catalog) ==
    IF catalog.kind = "error" THEN InspectFailed
    ELSE Strip(TableLines(catalog.tables))

\* TTLCache.__getitem__: the slots of the key that have not expired.
Live(k) == {i \in 1..Len(cache) : cache[i].key = k /\ now < cache[i].expires}

\* TTLCache.__setitem__: expired slots are dropped, the key's slot is
\* replaced, and the oldest slots go while the cache is over maxsize.
RECURSIVE Evict(_)
Evict(c) == IF Len(c) > MaxSize THEN Evict(Tail(c)) ELSE c

SetItem(k, v) ==
    LET keep == {i \in 1..Len(cache) : cache[i].key # k /\ now < cache[i].expires}
        F[i \in 0..Len(cache)] ==
            IF i = 0 THEN <<>>
            ELSE IF i \in keep THEN Append(F[i - 1], cache[i]) ELSE F[i - 1]
    IN  Evict(Append(F[Len(cache)], [key |-> k, value |-> v, expires |-> now + Ttl]))

\* The requests whose endpoint coroutine is running.  The endpoint is an
\* `async def` that calls get_db_schema without awaiting anything, so it
\* keeps the event loop from the call to the response.
OnLoop == {"lookup", "introspect", "store", "respond"}

\* Endpoints run in worker threads, as a plain `def` endpoint would.
CanRun_threadpool(r) == TRUE

\* The event loop starts a request's coroutine when no other one is running.
CanRun(r) == \A o \in Requests \ {r} : sc_pc[o] \notin OnLoop

ScInit ==
    /\ LoopInit /\ FxIdle /\ VaIdle
    /\ sc_pc = [r \in Requests |-> "idle"]
    /\ cache = <<>>
    /\ now = 0
    /\ schema_summary = [r \in Requests |-> <<>>]
    /\ response = [r \in Requests |-> <<>>]

\* A GET /schema request arrives and its coroutine is scheduled.
Arrive(r) ==
    /\ sc_pc[r] = "idle"
    /\ sc_pc' = [sc_pc EXCEPT ![r] = "queued"]
    /\ UNCHANGED <<cache, now, schema_summary, response, loopVars, fxVars, vaVars>>

\* The coroutine starts and calls logic.get_db_schema(engine).
Enter(r) ==
    /\ sc_pc[r] = "queued"
    /\ CanRun(r)
    /\ sc_pc' = [sc_pc EXCEPT ![r] = "lookup"]
    /\ UNCHANGED <<cache, now, schema_summary, response, loopVars, fxVars, vaVars>>

\* The wrapper of @cached: a live slot is returned, otherwise the function runs.
Lookup(r) ==
    /\ sc_pc[r] = "lookup"
    /\ IF Live("engine") # {}
          THEN /\ schema_summary' =
                     [schema_summary EXCEPT
                         ![r] = cache[CHOOSE i \in Live("engine") : TRUE].value]
               /\ sc_pc' = [sc_pc EXCEPT ![r] = "respond"]
          ELSE /\ sc_pc' = [sc_pc EXCEPT ![r] = "introspect"]
               /\ UNCHANGED schema_summary
    /\ UNCHANGED <<cache, now, response, loopVars, fxVars, vaVars>>

\* The function body: the inspector reads the catalog, or fails; a failure
\* is re-raised, nothing is cached, and the endpoint answers 500.
Introspect(r) ==
    /\ sc_pc[r] = "introspect"
    /\ \E catalog \in Catalogs :
          LET v == get_db_schema(catalog) IN
          IF v = InspectFailed
             THEN /\ response' = [response EXCEPT ![r] = <<"500">> \o v]
                  /\ sc_pc' = [sc_pc EXCEPT ![r] = "done"]
                  /\ UNCHANGED schema_summary
             ELSE /\ schema_summary' = [schema_summary EXCEPT ![r] = v]
                  /\ sc_pc' = [sc_pc EXCEPT ![r] = "store"]
                  /\ UNCHANGED response
    /\ UNCHANGED <<cache, now, loopVars, fxVars, vaVars>>

\* The wrapper stores the value the function returned.
Store(r) ==
    /\ sc_pc[r] = "store"
    /\ cache' = SetItem("engine", schema_summary[r])
    /\ sc_pc' = [sc_pc EXCEPT ![r] = "respond"]
    /\ UNCHANGED <<now, schema_summary, response, loopVars, fxVars, vaVars>>

\* return {"schema": schema_summary}
Respond(r) ==
    /\ sc_pc[r] = "respond"
    /\ response' = [response EXCEPT ![r] = <<"200">> \o schema_summary[r]]
    /\ sc_pc' = [sc_pc EXCEPT ![r] = "done"]
    /\ UNCHANGED <<cache, now, schema_summary, loopVars, fxVars, vaVars>>

\* Time passes: half a ttl or a whole one.
Tick ==
    /\ \E d \in {Ttl \div 2, Ttl} :
          /\ now + d <= MaxTicks * Ttl
          /\ now' = now + d
    /\ UNCHANGED <<sc_pc, cache, schema_summary, response, loopVars, fxVars, vaVars>>

ScNext ==
    \/ \E r \in Requests : Arrive(r)
    \/ \E r \in Requests : Enter(r)
    \/ \E r \in Requests : Lookup(r)
    \/ \E r \in Requests : Introspect(r)
    \/ \E r \in Requests : Store(r)
    \/ \E r \in Requests : Respond(r)
    \/ Tick

SpecSchema == ScInit /\ [][ScNext]_vars

\* ------------------------------------------------------------ claims

Last(seq) == seq[Len(seq)]

Terminal == pc \in {"returned", "raised", "propagated"}

\* A text that, trimmed and upper-cased, starts with SELECT or WITH: its
\* first lexeme that is not whitespace begins with one of the two words.
ReadOnlyStart(s) ==
    \E i \in 1..Len(s) :
        /\ \A j \in 1..(i - 1) : s[j] = WS
        /\ s[i] \in {"SELECT", "select", "Select", "SELECTED", "WITH", "with"}

IsRetryPrompt(p) == Contains(p, <<"**Failed SQL Query:**">>)

\* C1: a string is returned only when the Validator answered (True, "OK")
\* for exactly that string in the same invocation, as its last call; the
\* returned string is the candidate of the last attempt and starts with
\* SELECT or WITH; every earlier attempt failed, and an invocation that did
\* not end in "returned" returned nothing.
C1_ReturnedOnlyIfValidated ==
    /\ pc = "returned" =>
          /\ validLog # <<>>
          /\ Last(validLog) = [sql |-> result, is_valid |-> TRUE, message |-> OkMsg]
          /\ result = generated_sql
          /\ Len(validLog) = attempt + 1
          /\ Len(promptLog) = attempt + 1
          /\ ReadOnlyStart(result)
          /\ Last(dbLog) = <<"EXPLAIN">> \o result
          /\ \A i \in 1..(Len(validLog) - 1) : ~validLog[i].is_valid
    /\ (validLog # <<>> /\ Last(validLog).is_valid) => pc = "returned"
    /\ pc \notin {"returned", "raised", "propagated"} => result = <<>>

C1_Witness ==
    /\ pc = "returned"
    /\ Len(validLog) >= 2
    /\ result = <<"SELECT", "a", "FROM", "t", ";">>

\* C2: for every candidate that does not start with SELECT or WITH after
\* trimming and upper-casing, is_query_valid answers (False, the fixed
\* message) and sends nothing to the database; every statement the database
\* receives is EXPLAIN of a candidate that passes the gate.
C2_GateBeforeDatabase ==
    va_stage = "done" =>
        /\ ~ReadOnlyStart(va_sql) =>
              /\ va_result = <<FALSE, RejectMsg>>
              /\ dbLog = <<>>
        /\ \A i \in 1..Len(dbLog) :
              /\ dbLog[i] = <<"EXPLAIN">> \o va_sql
              /\ ReadOnlyStart(va_sql)
        /\ ReadOnlyStart(va_sql) => Len(dbLog) = 1

C2_Witness ==
    /\ va_stage = "done"
    /\ va_sql = <<WS, "drop", "a", "FROM", "t", ";", "DROP", "TABLE", "t">>
    /\ va_db = <<"ok">>
    /\ va_result = <<FALSE, RejectMsg>>
    /\ dbLog = <<>>

\* The steps an invocation in this state can still take at most: three per
\* remaining iteration (prompt, generation, validation) and the raise.
StepsLeft ==
    CASE pc = "loop"     -> 3 * (max_syntax_retries + 1 - attempt) + 1
      [] pc = "generate" -> 3 * (max_syntax_retries + 1 - attempt)
      [] pc = "validate" -> 3 * (max_syntax_retries + 1 - attempt) - 1
      [] OTHER           -> 0

\* C3: an invocation makes at most max_syntax_retries + 1 generation-service
\* calls, and it ends, by returning or by raising: the loop index never
\* passes max_syntax_retries + 1, every step after the call lowers the number
\* of steps left, which is a natural number, and an invocation that has not
\* ended always has a step to take.
C3_BoundedAndTerminates ==
    /\ [](Len(promptLog) <= max_syntax_retries + 1)
    /\ [](Len(validLog) <= Len(promptLog))
    /\ [](attempt <= max_syntax_retries + 1)
    /\ [](pc = "validate" => attempt <= max_syntax_retries)
    /\ [][pc # "idle" => StepsLeft' < StepsLeft]_vars
    /\ [](Terminal \/ ENABLED Next)

C3_Witness ==
    /\ pc = "raised"
    /\ max_syntax_retries >= 1
    /\ Len(promptLog) = max_syntax_retries + 1

\* C4: when the candidate of attempt 0 passes the Validator, the invocation
\* has made exactly one generation-service call and one Validator call, has
\* returned the validated string itself, and no retry prompt was built.
C4_FirstCandidateValid ==
    (validLog # <<>> /\ validLog[1].is_valid) =>
        /\ pc = "returned"
        /\ Len(promptLog) = 1
        /\ Len(serviceLog) = 1
        /\ Len(validLog) = 1
        /\ result = validLog[1].sql
        /\ dbLog = <<<<"EXPLAIN">> \o result>>
        /\ ~IsRetryPrompt(prompt)
        /\ \A i \in 1..Len(promptLog) : ~IsRetryPrompt(promptLog[i])

C4_Witness ==
    /\ pc = "returned"
    /\ Len(validLog) = 1
    /\ max_syntax_retries >= 1
    /\ result = <<"select", "ROUND", "(", "CAST", "(", "IFNULL", "(", "a", ",", "b",
                  ")", "AS", "NUMERIC", ")", ",", "2", ")", "from", "t">>

AllFailed ==
    /\ Len(validLog) = max_syntax_retries + 1
    /\ \A i \in 1..Len(validLog) : ~validLog[i].is_valid

\* C5: when all max_syntax_retries + 1 attempts failed validation the
\* invocation ends in the ValueError, whose message carries the attempt count
\* max_syntax_retries + 1 and ends with the Validator message of the last
\* attempt; and the ValueError is raised in no other case.
C5_ExhaustionMessage ==
    /\ (Terminal /\ AllFailed) => pc = "raised"
    /\ (pc = "loop" /\ AllFailed) => attempt > max_syntax_retries
    /\ pc = "raised" =>
          /\ AllFailed
          /\ Len(promptLog) = max_syntax_retries + 1
          /\ Contains(result, <<ToString(max_syntax_retries + 1), "attempts.">>)
          /\ Contains(result, <<"Last database error:">> \o Last(validLog).message)
          /\ SubSeq(result, Len(result) - Len(Last(validLog).message) + 1, Len(result))
                 = Last(validLog).message
          /\ Len(result) = 4 + Len(Last(validLog).message)

C5_Witness ==
    /\ pc = "raised"
    /\ Len(validLog) = 3
    /\ validLog[1].message = RejectMsg
    /\ validLog[2].message = <<"An unexpected error occurred:", "connection refused">>
    /\ validLog[3].message = <<"syntax error at or near a">>

\* C6 as stated: once the Validator has rejected a candidate with the fixed
\* not-read-only message, no further generation-service call is made and the
\* invocation has failed.
C6_NoRetryAfterRejection ==
    \A i \in 1..Len(validLog) :
        validLog[i].message = RejectMsg =>
            /\ Len(promptLog) <= i
            /\ pc \in {"raised", "loop"}
            /\ pc = "loop" => attempt > max_syntax_retries

\* C6 as amended: a not-read-only rejection (in the loop: of the empty
\* candidate) sends nothing to the database and is handled like every other
\* failed validation: it uses up one attempt; while attempts remain the next
\* prompt is the syntax-fix prompt carrying the rejected candidate and the
\* fixed message; the failure reaches the caller only with the exhaustion
\* error, which carries the fixed message when the last attempt was the
\* rejected one.
C6_RejectionIsRetried ==
    /\ \A i \in 1..Len(validLog) :
          validLog[i].message = RejectMsg =>
              /\ ~validLog[i].is_valid
              /\ ~ReadOnlyStart(validLog[i].sql)
              /\ (pc = "raised" => Len(validLog) = max_syntax_retries + 1)
              /\ (i = Len(validLog) /\ i <= max_syntax_retries) =>
                    /\ pc \in {"loop", "generate", "validate"}
                    /\ attempt = i
                    /\ result = <<>>
              /\ Len(promptLog) > i =>
                    Contains(promptLog[i + 1],
                             <<"**Failed SQL Query:**">> \o validLog[i].sql
                                 \o <<"**Database Error Message:**">> \o RejectMsg
                                 \o <<"**SQL Query:**">>)
    /\ Len(dbLog) = Cardinality({i \in 1..Len(validLog) : validLog[i].message # RejectMsg})
    /\ (pc = "raised" /\ Last(validLog).message = RejectMsg) =>
          Contains(result, <<"Last database error:">> \o RejectMsg)

C6_Witness ==
    /\ pc = "returned"
    /\ Len(validLog) = 3
    /\ validLog[1].message = RejectMsg /\ validLog[1].sql = <<>>
    /\ validLog[2].message = RejectMsg
    /\ serviceLog[1] = <<"Error:", "The question cannot be answered">>

C8_RefinementPrompt ==
    promptLog # <<>> =>
        IF Truthy(previous_sql) /\ Truthy(user_feedback)
        THEN /\ Contains(promptLog[1],
                    <<"**User's Original Question:**">> \o user_question)
             /\ Contains(promptLog[1],
                    <<"**Previous Incorrect SQL Query:**">> \o previous_sql)
             /\ Contains(promptLog[1],
                    <<"**User's Feedback on Why It Was Wrong:**">> \o user_feedback)
        ELSE /\ base_prompt_instruction = user_question
             /\ Contains(promptLog[1],
                    <<"**User Question:**">> \o user_question \o <<"**SQL Query:**">>)
             /\ Truthy(previous_sql) => ~Contains(promptLog[1], previous_sql)
             /\ Truthy(user_feedback) => ~Contains(promptLog[1], user_feedback)
             /\ ~Contains(promptLog[1], NoneVal)
             /\ ~Contains(promptLog[1], <<"**Previous Incorrect SQL Query:**">>)

C8_Witness ==
    /\ Len(promptLog) >= 1
    /\ previous_sql = <<"SELECT", "SUM", "(", "s", ")", "FROM", "o">>
    /\ user_feedback = <<"group", "it", "by", "month">>
    /\ Contains(promptLog[1], previous_sql \o
           <<"**User's Feedback on Why It Was Wrong:**">> \o user_feedback)

TargetedNames == {"NOW", "IFNULL", "DATE", "ROUND", "FORMAT_DATE"}

\* A call of a targeted function left as it was: NOW, IFNULL, DATE or
\* FORMAT_DATE called at all, or ROUND called on something else than the
\* cast.
UnfixedCall(s) ==
    \E i \in 1..(Len(s) - 1) :
        /\ s[i + 1] = "("
        /\ \/ s[i] \in {"NOW", "IFNULL", "DATE", "FORMAT_DATE"}
           \/ s[i] = "ROUND" /\ (i + 2 > Len(s) \/ s[i + 2] # "CAST")

\* A call of a targeted function inside the arguments of a call of a
\* targeted function.
NestedCall(s) ==
    \E i \in 1..(Len(s) - 1) :
        /\ s[i] \in TargetedNames /\ s[i + 1] = "("
        /\ \E j \in (i + 2)..(ScanClose(s, i + 2, 0) - 2) :
              s[j] \in TargetedNames /\ s[j + 1] = "("

\* C9 as stated: fix_postgres_sql applied to its own output changes nothing.
C9_Idempotent == fx_stage = "twice" => fx_twice = fx_once

\* C10 as stated, for the five function patterns: when a targeted call is
\* nested inside the arguments of another targeted call, the output of
\* fix_postgres_sql has no targeted call left unrewritten.
C10_NestedCallsRewritten ==
    (fx_stage \in {"once", "twice"} /\ NestedCall(fx_sql)) => ~UnfixedCall(fx_once)

\* C12: the prompt of every attempt k >= 1 is the effective instruction of
\* attempt 0 followed by the syntax-fix block with the candidate and the
\* Validator message of attempt k - 1; the prompt of attempt 0 is the
\* effective instruction alone, with no failed candidate and no error message.
C12_RetryPromptCarriesPrevious ==
    /\ \A k \in 2..Len(promptLog) :
          /\ Contains(promptLog[k],
                <<"**User Question:**">> \o base_prompt_instruction
                    \o <<"The previously generated SQL query failed with a syntax error. ...",
                         "**Failed SQL Query:**">> \o validLog[k - 1].sql
                    \o <<"**Database Error Message:**">> \o validLog[k - 1].message
                    \o <<"**SQL Query:**">>)
          /\ ~validLog[k - 1].is_valid
    /\ promptLog # <<>> =>
          /\ Contains(promptLog[1],
                <<"**User Question:**">> \o base_prompt_instruction
                    \o <<"**SQL Query:**">>)
          /\ ~Contains(promptLog[1], <<"**Failed SQL Query:**">>)
          /\ ~Contains(promptLog[1], <<"**Database Error Message:**">>)
          /\ ~Contains(promptLog[1], RejectMsg)

C12_Witness ==
    /\ Len(promptLog) = 3
    /\ validLog[1].sql = <<"SELECT", "a", "FROM", "t", ";">>
    /\ validLog[1].message = <<"syntax error at or near a">>
    /\ validLog[2].sql = <<>>
    /\ validLog[2].message = RejectMsg
    /\ Truthy(previous_sql) /\ Truthy(user_feedback)

\* The requests whose call of get_db_schema is recomputing the schema: the
\* function body is running, or has returned a value not stored yet.
Recomputing == {r \in Requests : sc_pc[r] \in {"introspect", "store"}}

====
